---- MODULE Spec2Model ----
(***************************************************************************)
(* Lsky uploader: the authenticated remote client (LskyClient), the        *)
(* reconciler (cleanupUnusedImages), the upload orchestrator               *)
(* (CustomUploader.uploadAllLocalImages) and the download orchestrators.   *)
(*                                                                         *)
(* Scheduling is JavaScript's: one handler runs at a time, from one await  *)
(* to the next.  Every action below is one such handler.                   *)
(***************************************************************************)
EXTENDS Integers, Sequences, FiniteSets, TLC

\* ------------------------------------------------------------------ bounds
NumCallers == 3          \* concurrent callers of one LskyClient
MaxRefs == 2             \* image references in the documents of the vault
NumDocs == 2             \* markdown files of the vault
MaxItems == 3            \* images of the remote inventory
PageSize == 2            \* images on one page of GET /images
MaxEntries == 2          \* files and folders of the vault of a path resolution
MaxPolls == 2            \* timer firings of one wait of getToken that are told apart

Callers == 1..NumCallers

\* HTTP outcomes of one fetch: 0 stands for a rejected fetch (no response).
Statuses == {0, 200, 401, 500}

\* ------------------------------------------------------------ document text
\* A text is a sequence of atoms.  An atom is one of the characters and fixed
\* strings the regular expressions of the sources name, or a word: a run of
\* characters none of which those expressions name (a path, a URL, an alt text).
\* A string of the program (a path, a URL, a replacement) is a text too.

\* Words that start with http:// or https:// and with the configured origin.
OriginWords == {"https://h/x.png", "https://h/y.png", "https://h/d/x.png", "https://h/z.png"}
\* Words that start with http:// or https://.
HttpWords == OriginWords \cup {"https://o/w.png"}

IsHttp(a) == a \in HttpWords
\* Words that start with http:// or https:// in whatever letter case.
IsHttpAnyCase(a) == a \in HttpWords \cup {"HTTPS://h/u.png"}
\* Words that start with //.
IsProtocolRelative(a) == a = "//cdn/v.png"
\* Words that start with data: in lower case.
IsData(a) == a = "data:image/png;base64,AA"
IsSpace(a) == a \in {" ", "\n"}

Min(S) == CHOOSE x \in S : \A y \in S : x <= y
Max(S) == CHOOSE x \in S : \A y \in S : x >= y
MinOr0(S) == IF S = {} THEN 0 ELSE Min(S)
MaxOr0(S) == IF S = {} THEN 0 ELSE Max(S)

\* t[from..to], empty when from > to.
Slice(t, from, to) == IF from > to THEN <<>> ELSE SubSeq(t, from, to)

\* The first index >= k of an atom of t that is in S, or 0.
FirstIn(t, k, S) == MinOr0({e \in k..Len(t) : t[e] \in S})

\* The literal P stands in t at index k.
LitAt(t, k, P) ==
    /\ k >= 1
    /\ k + Len(P) - 1 <= Len(t)
    /\ \A n \in 1..Len(P) : t[k + n - 1] = P[n]

\* A match: e is the index of its last atom (0: no match), cs..ce its capture group.
NoMatch == [e |-> 0, cs |-> 0, ce |-> 0]

\* The atom that ends a run [^stop]+ begun at k is the closing atom.
Closed(t, k, e, close) == IF e > k /\ t[e] = close THEN e ELSE 0

\* The part of an expression after its opening, matched at index k of t up to
\* and including the closing atom close.  tail "any" is the capture group
\* [^stop]+, "http" is https?:\/\/[^stop]+, "lit" is an escaped literal; the
\* result is the index of the closing atom, or 0.
TailEnd(rx, t, k, stop, close) ==
    IF rx.tail = "lit"
    THEN IF LitAt(t, k, rx.lit) /\ k + Len(rx.lit) <= Len(t) /\ t[k + Len(rx.lit)] = close
         THEN k + Len(rx.lit) ELSE 0
    ELSE IF k > Len(t) \/ (rx.tail = "http" /\ ~IsHttp(t[k])) THEN 0
    ELSE Closed(t, k, FirstIn(t, IF rx.tail = "http" THEN k + 1 ELSE k, stop), close)

\* The match whose capture group starts at cs and closes at index e.
Capture(cs, e) == IF e = 0 THEN NoMatch ELSE [e |-> e, cs |-> cs, ce |-> e - 1]

\* The atoms that end the capture group of the markdown form.
MdStop(rx) == IF rx.tail = "http" THEN {" ", "\n", ")"} ELSE {")"}

\* The indexes j of a "](" that .*? can reach from index i and after which
\* the rest matches.
MdJs(rx, t, i) ==
    {j \in (i + 2)..(Len(t) - 1) :
        /\ \A k \in (i + 2)..(j - 1) : t[k] # "\n"
        /\ t[j] = "]" /\ t[j + 1] = "("
        /\ TailEnd(rx, t, j + 2, MdStop(rx), ")") # 0}

MdFrom(rx, t, j) ==
    IF j = 0 THEN NoMatch ELSE Capture(j + 2, TailEnd(rx, t, j + 2, MdStop(rx), ")"))

\* !\[.*?\]\( TAIL \)  at index i: the lazy .*? takes the fewest atoms, none
\* of them a newline, that let the rest match.
MdAt(rx, t, i) ==
    IF ~LitAt(t, i, <<"!", "[">>) THEN NoMatch ELSE MdFrom(rx, t, MinOr0(MdJs(rx, t, i)))

\* With rx.close the expression goes on with [^>]*> after the closing quote at e.
HtmlGt(m, g) == IF g = 0 THEN NoMatch ELSE [m EXCEPT !.e = g]

HtmlClose(rx, t, m) ==
    IF m.e = 0 \/ ~rx.close THEN m ELSE HtmlGt(m, FirstIn(t, m.e + 1, {">"}))

\* src=" TAIL " at index q, and what rx.close adds.
HtmlTry(rx, t, q) ==
    HtmlClose(rx, t, Capture(q + 2, TailEnd(rx, t, q + 2, {"\"", ">"}, "\"")))

\* The indexes q of a src=" that [^>]+ can reach from index i and from which
\* the rest matches.
HtmlQs(rx, t, i) ==
    {q \in (i + 2)..Len(t) :
        /\ LitAt(t, q, <<"src=", "\"">>)
        /\ \A k \in (i + 1)..(q - 1) : t[k] # ">"
        /\ HtmlTry(rx, t, q).e # 0}

HtmlFrom(rx, t, q) == IF q = 0 THEN NoMatch ELSE HtmlTry(rx, t, q)

\* <img[^>]+src=" TAIL "  at index i, and with rx.close the further [^>]*> :
\* the greedy [^>]+ takes the most atoms that let the rest match.
HtmlAt(rx, t, i) ==
    IF ~LitAt(t, i, <<"<img">>) THEN NoMatch ELSE HtmlFrom(rx, t, MaxOr0(HtmlQs(rx, t, i)))

WikiClose(t, i, e) ==
    IF e # 0 /\ e + 1 <= Len(t) /\ t[e + 1] = "]"
    THEN [e |-> e + 1, cs |-> i + 3, ce |-> e - 1]
    ELSE NoMatch

\* !\[\[ TAIL \]\]  at index i.
WikiAt(rx, t, i) ==
    IF ~LitAt(t, i, <<"!", "[", "[">>) THEN NoMatch
    ELSE WikiClose(t, i, TailEnd(rx, t, i + 3, {"]"}, "]"))

\* The indexes of a "](" that .*? can reach from index i.
StripJs(t, i) ==
    {j \in (i + 2)..(Len(t) - 1) :
        /\ \A k \in (i + 2)..(j - 1) : t[k] # "\n"
        /\ t[j] = "]" /\ t[j + 1] = "("}

\* The indexes of a src=" that [^>]+ can reach from index i.
StripQs(t, i) ==
    {q \in (i + 2)..Len(t) :
        LitAt(t, q, <<"src=", "\"">>) /\ \A k \in (i + 1)..(q - 1) : t[k] # ">"}

\* The first alternative, in the order of the expression, that matches at i.
StripEnd(t, i, j, q) ==
    IF LitAt(t, i, <<"!", "[">>) /\ j # 0 THEN j + 1
    ELSE IF t[i] = ")" THEN i
    ELSE IF t[i] = "<img" /\ q # 0 THEN q + 1
    ELSE IF t[i] = "\"" THEN i
    ELSE IF LitAt(t, i, <<"!", "[", "[">>) THEN i + 2
    ELSE IF LitAt(t, i, <<"]", "]">>) THEN i + 1
    ELSE 0

\* !\[.*?\]\(|\)|<img[^>]+src="|"|!\[\[|\]\]  at index i.
StripAt(t, i) ==
    [e |-> StripEnd(t, i, MinOr0(StripJs(t, i)), MaxOr0(StripQs(t, i))), cs |-> 0, ce |-> 0]

\* The match of expression rx that starts at index i of t, or NoMatch.
RxAt(rx, t, i) ==
    CASE rx.form = "md" -> MdAt(rx, t, i)
      [] rx.form = "html" -> HtmlAt(rx, t, i)
      [] rx.form = "wiki" -> WikiAt(rx, t, i)
      [] rx.form = "strip" -> StripAt(t, i)

Rx(form, tail, lit, close) == [form |-> form, tail |-> tail, lit |-> lit, close |-> close]

\* The index of the leftmost match of rx in t at or after from, or 0.
RxNext(rx, t, from) == MinOr0({i \in from..Len(t) : RxAt(rx, t, i).e # 0})

RECURSIVE RxMatches(_, _, _)
RECURSIVE RxMatchesAt(_, _, _, _)
RxMatchesAt(rx, t, i, m) == <<<<i, m>>>> \o RxMatches(rx, t, m.e + 1)

RxMatchesFrom(rx, t, i) == IF i = 0 THEN <<>> ELSE RxMatchesAt(rx, t, i, RxAt(rx, t, i))

\* The matches of a /g expression from index from on, leftmost first, each
\* search starting after the previous match: <<start, match>> pairs.
RxMatches(rx, t, from) == RxMatchesFrom(rx, t, RxNext(rx, t, from))

RECURSIVE RxReplaceFrom(_, _, _, _)
RxReplaceAt(rx, t, rep, from, i) ==
    IF i = 0 THEN Slice(t, from, Len(t))
    ELSE Slice(t, from, i - 1) \o rep \o RxReplaceFrom(rx, t, rep, RxAt(rx, t, i).e + 1)

\* content.replace(rx, rep) for a /g expression and a replacement without
\* $ patterns, from index from on.
RxReplaceFrom(rx, t, rep, from) == RxReplaceAt(rx, t, rep, from, RxNext(rx, t, from))

RxReplace(rx, t, rep) == RxReplaceFrom(rx, t, rep, 1)

\* String.prototype.trim on the atoms.
RECURSIVE Trim(_)
Trim(s) ==
    IF s = <<>> THEN s
    ELSE IF IsSpace(s[1]) THEN Trim(Tail(s))
    ELSE IF IsSpace(s[Len(s)]) THEN Trim(SubSeq(s, 1, Len(s) - 1))
    ELSE s

\* Set.prototype.add keeps the insertion order of the first occurrence.
SetAdd(list, x) == IF \E n \in 1..Len(list) : list[n] = x THEN list ELSE Append(list, x)

\* Array.from(new Set(list)): the distinct elements in order of first insertion.
RECURSIVE Distinct(_)
Distinct(list) ==
    IF list = <<>> THEN <<>>
    ELSE SetAdd(Distinct(SubSeq(list, 1, Len(list) - 1)), list[Len(list)])

\* The three reference forms.
Md(w) == <<"!", "[", "alt", "]", "(", w, ")">>
Html(w) == <<"<img", " ", "src=", "\"", w, "\"", ">">>
Wiki(w) == <<"!", "[", "[", w, "]", "]">>
\* The markdown form with a space before the path, which markdown allows.
MdPad(w) == <<"!", "[", "alt", "]", "(", " ", w, ")">>

\* ---- upload.ts
\* isLocalPath: not empty, and none of /^https?:\/\//i, /^\/\// and /^data:/ matches.
isLocalPath(p) ==
    /\ p # <<>>
    /\ ~IsHttpAnyCase(p[1])
    /\ ~IsProtocolRelative(p[1])
    /\ ~IsData(p[1])

\* The trimmed capture groups of the matches of rx in content.
CapturesOf(content, ms) ==
    [n \in 1..Len(ms) |-> Trim(Slice(content, ms[n][2].cs, ms[n][2].ce))]

Captures(rx, content) == CapturesOf(content, RxMatches(rx, content, 1))

extractLocalImagePaths(content) ==
    Distinct(SelectSeq(Captures(Rx("md", "any", <<>>, FALSE), content)
                      \o Captures(Rx("html", "any", <<>>, FALSE), content)
                      \o Captures(Rx("wiki", "any", <<>>, FALSE), content),
                    isLocalPath))

replaceImageLink(content, oldPath, newUrl) ==
    LET c1 == RxReplace(Rx("md", "lit", oldPath, FALSE), content,
                        <<"!", "[", "]", "(">> \o newUrl \o <<")">>)
        c2 == RxReplace(Rx("html", "lit", oldPath, FALSE), c1,
                        <<"<img", " ", "src=", "\"">> \o newUrl \o <<"\"">>)
    IN  RxReplace(Rx("wiki", "lit", oldPath, FALSE), c2,
                  <<"!", "[", "]", "(">> \o newUrl \o <<")">>)

\* ---- download.ts, cleanup.ts
\* The matched strings of rx in content (String.prototype.match with /g).
MatchedOf(content, ms) == [n \in 1..Len(ms) |-> Slice(content, ms[n][1], ms[n][2].e)]

Matched(rx, content) == MatchedOf(content, RxMatches(rx, content, 1))

\* s.replace(/!\[.*?\]\(|\)|<img[^>]+src="|"|!\[\[|\]\]/g, '')
StripSyntax(s) == RxReplace(Rx("strip", "any", <<>>, FALSE), s, <<>>)

\* url.startsWith(serverOrigin)
StartsWithOrigin(url) == url # <<>> /\ url[1] \in OriginWords

\* The URLs of the matched strings that start with the origin, each once.
OriginUrls(found) ==
    Distinct(SelectSeq([n \in 1..Len(found) |-> StripSyntax(found[n])], StartsWithOrigin))

extractRemoteImageUrls(content) ==
    OriginUrls(Matched(Rx("md", "http", <<>>, FALSE), content)
                 \o Matched(Rx("html", "http", <<>>, FALSE), content)
                 \o Matched(Rx("wiki", "http", <<>>, FALSE), content))

replaceUrlWithRelative(content, url, fileName) ==
    LET embed == <<"!", "[", "[">> \o fileName \o <<"]", "]">>
        c1 == RxReplace(Rx("md", "lit", url, FALSE), content, embed)
        c2 == RxReplace(Rx("html", "lit", url, TRUE), c1, embed)
    IN  RxReplace(Rx("wiki", "lit", url, FALSE), c2, embed)

VARIABLES
    \* LskyClient and the network
    isFetchingToken,   \* LskyClient.isFetchingToken
    configToken,       \* LskyClient.config.token, 0 when unset
    netTokens,         \* POST /tokens requests in flight
    tokenPosts,        \* POST /tokens requests issued since the client was last idle
    pc,                \* per caller: where its call of the client stands
    op,                \* per caller: the public method it called
    retry401,          \* per caller: authorizedFetch's retry401 argument
    sends,             \* per caller: fetches issued by its authorizedFetch call
    refreshes,         \* per caller: getToken calls made by its authorizedFetch call
    refreshed,         \* per caller: how the getToken call of its authorizedFetch ended
    resps,             \* per caller: statuses its authorizedFetch call received
    waited,            \* per caller: getToken found isFetchingToken set and waited
    polls,             \* per caller: timer firings of its wait that found the flag set
    result,            \* per caller: what the public method returned or threw
    \* the plugin and the operation it runs
    settingsToken,     \* LskyPlugin.settings.token, 0 when unset
    serverUrl,         \* LskyPlugin.settings.serverUrl
    rpc,               \* where the running operation stands
    kind,              \* the operation: upload, cleanup, dlCurrent, dlAll
    entry,             \* how it was started: ribbon, command, startup
    \* the vault
    shape,             \* the references the documents held at the start
    docs,              \* the text of each markdown file, in getMarkdownFiles order
    vaultFiles,        \* the image paths that resolve to a stored file
    files,             \* the image files the downloads stored: <<document, name, URL>>
    \* locals of the running operation
    cur,               \* index of the document being processed
    content,           \* the text read from it
    updated,           \* the working copy the rewrites accumulate in
    refs,              \* the extracted paths or URLs
    idx,               \* index in refs of the reference being processed
    outcomes,          \* per processed reference of this document: how it ended
    urls,              \* per processed reference: the URL uploadBinary returned, or <<>>
    log,               \* the reads, reference steps and writes so far
    report,            \* the counts of the closing Notice
    \* the remote inventory and the locals of cleanupUnusedImages
    inventory,         \* server side: the images, in listing order
    inventory0,        \* the inventory when the operation started
    page,              \* listAllImages: page
    last,              \* listAllImages: last
    all,               \* listAllImages: result
    used,              \* collectUsedImageUrls: the set, in insertion order
    toDelete,          \* the orphans
    confirmed,         \* the answer to confirmCleanup: none, yes, no
    success,           \* the URLs whose delete succeeded
    failed             \* the URLs whose delete failed

clientVars == <<isFetchingToken, configToken, netTokens, tokenPosts, pc, op,
                retry401, sends, refreshes, refreshed, resps, waited, polls, result>>
runVars == <<settingsToken, serverUrl, rpc, kind, entry>>
vaultVars == <<shape, docs, vaultFiles, files>>
localVars == <<cur, content, updated, refs, idx, outcomes, urls, log, report>>
cleanVars == <<inventory0, page, last, all, used, toDelete, confirmed, success, failed>>

vars == <<clientVars, runVars, vaultVars, localVars, inventory, cleanVars>>

\* The caller of the client that the running operation is.
RunCaller == 1

\* ------------------------------------------------------------ LskyClient
ClientInit ==
    /\ isFetchingToken = FALSE
    /\ netTokens = 0
    /\ tokenPosts = 0
    /\ pc = [c \in Callers |-> "idle"]
    /\ op = [c \in Callers |-> "none"]
    /\ retry401 = [c \in Callers |-> TRUE]
    /\ sends = [c \in Callers |-> 0]
    /\ refreshes = [c \in Callers |-> 0]
    /\ refreshed = [c \in Callers |-> "none"]
    /\ resps = [c \in Callers |-> <<>>]
    /\ waited = [c \in Callers |-> FALSE]
    /\ polls = [c \in Callers |-> 0]
    /\ result = [c \in Callers |-> "none"]

\* The token POST /tokens issues to a client that holds the token held: another one.
NewToken(held) == IF held = 1 THEN 2 ELSE 1

\* The caller has taken what its call of the client returned or threw: the
\* call is over.
callReturned(c) ==
    /\ pc' = [pc EXCEPT ![c] = "idle"]
    /\ op' = [op EXCEPT ![c] = "none"]
    /\ retry401' = [retry401 EXCEPT ![c] = TRUE]
    /\ sends' = [sends EXCEPT ![c] = 0]
    /\ refreshes' = [refreshes EXCEPT ![c] = 0]
    /\ refreshed' = [refreshed EXCEPT ![c] = "none"]
    /\ resps' = [resps EXCEPT ![c] = <<>>]
    /\ waited' = [waited EXCEPT ![c] = FALSE]
    /\ polls' = [polls EXCEPT ![c] = 0]
    /\ result' = [result EXCEPT ![c] = "none"]
    /\ tokenPosts' = IF \A d \in Callers \ {c} : pc[d] = "idle" THEN 0 ELSE tokenPosts

\* The public method of caller c ends with r (a value it returns or throws).
Complete(c, r) ==
    /\ pc' = [pc EXCEPT ![c] = "done"]
    /\ result' = [result EXCEPT ![c] = r]

\* The count of the timer firings of a wait after one more of them found the
\* flag set: the call itself is not a firing, and counts above MaxPolls are
\* not told apart.
Polled(at, n) == IF at # "gt_wait" THEN 0 ELSE IF n < MaxPolls THEN n + 1 ELSE MaxPolls

TokenBusyNever == FALSE

\* getToken's test of the busy flag.
TokenBusy == isFetchingToken

\* getToken, from its call to its first await: either the 200 ms timer of the
\* wait loop, or the POST /tokens fetch with the flag set.
getTokenEnter(c) ==
    IF TokenBusy
    THEN /\ pc' = [pc EXCEPT ![c] = "gt_wait"]
         /\ waited' = [waited EXCEPT ![c] = TRUE]
         /\ polls' = [polls EXCEPT ![c] = Polled(pc[c], @)]
         /\ UNCHANGED <<isFetchingToken, netTokens, tokenPosts>>
    ELSE /\ isFetchingToken' = TRUE
         /\ netTokens' = netTokens + 1
         /\ tokenPosts' = tokenPosts + 1
         /\ pc' = [pc EXCEPT ![c] = "gt_fetch"]
         /\ polls' = [polls EXCEPT ![c] = 0]
         /\ UNCHANGED waited

\* authorizedFetch up to its fetch: the request goes out.
authorizedFetchSend(c, retry) ==
    /\ retry401' = [retry401 EXCEPT ![c] = retry]
    /\ sends' = [sends EXCEPT ![c] = @ + 1]
    /\ pc' = [pc EXCEPT ![c] = "af_fetch"]

RetryAfterRefreshAgain == TRUE

\* The retry401 argument of the call authorizedFetch makes after a refresh.
RetryAfterRefresh == FALSE

\* What the method that called authorizedFetch makes of the response: each of
\* deleteImageByKey, listAllImages and uploadBinary throws 'HTTP <status>'
\* unless res.ok.
HttpResult(s) ==
    IF s = 200 THEN "ok" ELSE IF s = 401 THEN "HTTP 401" ELSE "HTTP 500"

\* getToken returns (ok) or throws (~ok) to whoever awaited it.
getTokenReturn(c, ok) ==
    IF op[c] = "getToken"
    THEN /\ Complete(c, IF ok THEN "token" ELSE "error")
         /\ UNCHANGED <<retry401, sends, refreshed>>
    ELSE /\ refreshed' = [refreshed EXCEPT ![c] = IF ok THEN "ok" ELSE "fail"]
         /\ IF ok
            THEN /\ authorizedFetchSend(c, RetryAfterRefresh)
                 /\ UNCHANGED result
            ELSE /\ Complete(c, "error")
                 /\ UNCHANGED <<retry401, sends>>

\* Caller c calls client.getToken().
getTokenCall(c) ==
    /\ op' = [op EXCEPT ![c] = "getToken"]
    /\ getTokenEnter(c)
    /\ result' = [result EXCEPT ![c] = "none"]
    /\ UNCHANGED <<configToken, retry401, sends, refreshes, refreshed, resps>>

\* Caller c calls the public method name, which runs to the fetch of its
\* authorizedFetch(url, init) call.
apiCall(c, name) ==
    /\ op' = [op EXCEPT ![c] = name]
    /\ retry401' = [retry401 EXCEPT ![c] = TRUE]
    /\ sends' = [sends EXCEPT ![c] = 1]
    /\ pc' = [pc EXCEPT ![c] = "af_fetch"]
    /\ refreshes' = [refreshes EXCEPT ![c] = 0]
    /\ refreshed' = [refreshed EXCEPT ![c] = "none"]
    /\ resps' = [resps EXCEPT ![c] = <<>>]
    /\ waited' = [waited EXCEPT ![c] = FALSE]
    /\ polls' = [polls EXCEPT ![c] = 0]
    /\ result' = [result EXCEPT ![c] = "none"]
    /\ UNCHANGED <<isFetchingToken, configToken, netTokens, tokenPosts>>

\* A caller calls client.getToken().
CallGetToken(c) ==
    /\ pc[c] = "idle"
    /\ getTokenCall(c)
    /\ UNCHANGED <<runVars, vaultVars, localVars, inventory, cleanVars>>

\* A caller calls client.deleteImageByKey(key).
CallDelete(c) ==
    /\ pc[c] = "idle"
    /\ apiCall(c, "deleteImageByKey")
    /\ UNCHANGED <<runVars, vaultVars, localVars, inventory, cleanVars>>

\* The 200 ms timer of the wait loop fires: getToken is invoked again.
PollTimer(c) ==
    /\ pc[c] = "gt_wait"
    /\ getTokenEnter(c)
    /\ UNCHANGED <<configToken, op, retry401, sends, refreshes, refreshed,
                   resps, result>>
    /\ UNCHANGED <<runVars, vaultVars, localVars, inventory, cleanVars>>

FlagKeptAfterThrow == isFetchingToken

\* The flag after the try block of getToken has thrown: the finally block
\* clears it.
FlagAfterThrow == FALSE

\* POST /tokens fails: the fetch rejects, or the status is not ok.
TokenFetchFail(c) ==
    /\ pc[c] = "gt_fetch"
    /\ netTokens' = netTokens - 1
    /\ isFetchingToken' = FlagAfterThrow
    /\ getTokenReturn(c, FALSE)
    /\ UNCHANGED <<configToken, tokenPosts, op, refreshes, resps, waited, polls>>
    /\ UNCHANGED <<runVars, vaultVars, localVars, inventory, cleanVars>>

\* POST /tokens answers with an ok status: getToken awaits res.json().
TokenFetchOk(c) ==
    /\ pc[c] = "gt_fetch"
    /\ pc' = [pc EXCEPT ![c] = "gt_json"]
    /\ UNCHANGED <<isFetchingToken, configToken, netTokens, tokenPosts, op,
                   retry401, sends, refreshes, refreshed, resps, waited, polls, result>>
    /\ UNCHANGED <<runVars, vaultVars, localVars, inventory, cleanVars>>

\* The body arrives: with a token it is stored, without one getToken throws.
TokenJson(c, hasToken) ==
    /\ pc[c] = "gt_json"
    /\ netTokens' = netTokens - 1
    /\ isFetchingToken' = FALSE
    /\ IF hasToken
       THEN configToken' = NewToken(configToken)
       ELSE UNCHANGED configToken
    /\ getTokenReturn(c, hasToken)
    /\ UNCHANGED <<tokenPosts, op, refreshes, resps, waited, polls>>
    /\ UNCHANGED <<runVars, vaultVars, localVars, inventory, cleanVars>>

\* The image is not the one the DELETE in flight names.
OtherThanTarget(img) == img.key # toDelete[idx].key

\* The fetch of authorizedFetch ends with status s (0: it rejects).  The server
\* that answers a DELETE with 200 has removed the image.
AfResponse(c, s) ==
    /\ pc[c] = "af_fetch"
    /\ resps' = [resps EXCEPT ![c] = Append(@, s)]
    /\ IF s = 0
       THEN /\ Complete(c, "error")
            /\ UNCHANGED <<isFetchingToken, netTokens, tokenPosts, waited, polls, refreshes,
                           retry401, sends>>
       ELSE IF s = 401 /\ retry401[c]
       THEN /\ refreshes' = [refreshes EXCEPT ![c] = @ + 1]
            /\ getTokenEnter(c)
            /\ UNCHANGED <<retry401, sends, result>>
       ELSE /\ Complete(c, HttpResult(s))
            /\ UNCHANGED <<isFetchingToken, netTokens, tokenPosts, waited, polls, refreshes,
                           retry401, sends>>
    /\ UNCHANGED <<configToken, op, refreshed>>
    /\ inventory' = IF s = 200 /\ op[c] = "deleteImageByKey" /\ rpc = "cl_delete"
                    THEN SelectSeq(inventory, OtherThanTarget)
                    ELSE inventory
    /\ UNCHANGED <<runVars, vaultVars, localVars, cleanVars>>

\* The server URLs of the settings: one that new URL() parses, and one
\* without a scheme, on which it throws.
ServerUrls == {"https://h/api/v1", "h/api/v1"}

\* getServerOrigin: protocol and host of the URL, or null (here <<>>).
getServerOrigin(url) == IF url = "https://h/api/v1" THEN <<"https://h">> ELSE <<>>

NoOriginNever(origin) == FALSE

\* The test of the three operations on what getServerOrigin returned: !origin.
NoOrigin(origin) == origin = <<>>

\* The Notice of the invalid server address, and the return after it.
ReturnInvalid ==
    /\ rpc' = "done"
    /\ log' = Append(log, <<"notice", "invalid", 0>>)

\* No operation of the plugin runs.
NoRun ==
    /\ settingsToken = 0
    /\ serverUrl = "https://h/api/v1"
    /\ rpc = "idle" /\ kind = "none" /\ entry = "none"
    /\ shape = <<>> /\ docs = <<>> /\ vaultFiles = {} /\ files = {}
    /\ cur = 0 /\ content = <<>> /\ updated = <<>> /\ refs = <<>> /\ idx = 0
    /\ outcomes = <<>> /\ urls = <<>> /\ log = <<>> /\ report = <<>>
    /\ inventory = <<>> /\ inventory0 = <<>> /\ page = 0 /\ last = 0 /\ all = <<>>
    /\ used = <<>> /\ toDelete = <<>> /\ confirmed = "none"
    /\ success = <<>> /\ failed = <<>>

ClientOnlyInit ==
    /\ ClientInit
    /\ configToken = 0
    /\ NoRun

ClientNext ==
    \E c \in Callers :
        \/ CallGetToken(c)
        \/ CallDelete(c)
        \/ PollTimer(c)
        \/ TokenFetchFail(c)
        \/ TokenFetchOk(c)
        \/ \E b \in BOOLEAN : TokenJson(c, b)
        \/ \E s \in Statuses : AfResponse(c, s)

\* One LskyClient and NumCallers concurrent callers of getToken and deleteImageByKey.
SpecClient == ClientOnlyInit /\ [][ClientNext]_vars

\* ------------------------------------------------------------ the vault
\* One reference of a document: its form, its path or URL, and the separator
\* that follows it.
Seg(f, w, sp) == [form |-> f, w |-> w, sep |-> sp]

\* The text of a reference of form f to w.
Form(f, w) ==
    IF f = "md" THEN Md(w)
    ELSE IF f = "html" THEN Html(w)
    ELSE IF f = "pad" THEN MdPad(w)
    ELSE Wiki(w)

RECURSIVE Render(_)
\* The text of a document made of the references d.
Render(d) ==
    IF d = <<>> THEN <<>>
    ELSE Form(d[1].form, d[1].w) \o <<d[1].sep>> \o Render(Tail(d))

RECURSIVE DocShapes(_, _, _)
\* The documents of n references taken from R, separated by an atom of Seps;
\* the last one ends its line.
DocShapes(R, Seps, n) ==
    IF n = 0 THEN {<<>>}
    ELSE {<<Seg(r[1], r[2], sp)>> \o rest :
            r \in R, sp \in (IF n = 1 THEN {"\n"} ELSE Seps),
            rest \in DocShapes(R, Seps, n - 1)}

\* The documents of at most n references taken from R.
DocsUpTo(R, Seps, n) == UNION {DocShapes(R, Seps, k) : k \in 0..n}

\* ------------------------------------------------------------ main.ts
\* refreshClient: a new LskyClient holding settings.token.
refreshClient(token) ==
    /\ isFetchingToken' = FALSE
    /\ configToken' = token

\* A plugin whose onload has run, holding the token t (0: none).
PluginInit(t) ==
    /\ ClientInit
    /\ settingsToken = t
    /\ configToken = t
    /\ rpc = "idle" /\ kind = "none" /\ entry = "none"
    /\ cur = 0 /\ content = <<>> /\ updated = <<>> /\ refs = <<>> /\ idx = 0
    /\ outcomes = <<>> /\ urls = <<>> /\ log = <<>> /\ report = <<>>
    /\ page = 0 /\ last = 0 /\ all = <<>> /\ used = <<>> /\ toDelete = <<>>
    /\ confirmed = "none" /\ success = <<>> /\ failed = <<>>

\* ensureClient up to its await: getToken is called when settings.token is empty.
ensureClient ==
    IF settingsToken = 0
    THEN /\ getTokenCall(RunCaller)
         /\ rpc' = "ensure"
    ELSE /\ rpc' = "begin"
         /\ UNCHANGED clientVars

\* A ribbon button is clicked or a command is run: the callback calls ensureClient.
Invoke(k, e) ==
    /\ rpc = "idle"
    /\ pc[RunCaller] = "idle"
    /\ kind' = k
    /\ entry' = e
    /\ ensureClient
    /\ UNCHANGED <<settingsToken, serverUrl, vaultVars, localVars, inventory, cleanVars>>

\* ensureClient after getToken: the token is stored and saveSettings refreshes
\* the client; a failure shows a Notice. Either way the callback goes on.
EnsureReturned ==
    /\ rpc = "ensure"
    /\ pc[RunCaller] = "done"
    /\ IF result[RunCaller] = "token"
       THEN /\ settingsToken' = configToken
            /\ refreshClient(configToken)
       ELSE UNCHANGED <<settingsToken, isFetchingToken, configToken>>
    /\ callReturned(RunCaller)
    /\ rpc' = "begin"
    /\ UNCHANGED netTokens
    /\ UNCHANGED <<serverUrl, kind, entry, vaultVars, localVars, inventory, cleanVars>>

\* The steps of the client that a running operation waits for.
RunClientNext ==
    \/ TokenFetchFail(RunCaller)
    \/ TokenFetchOk(RunCaller)
    \/ \E b \in BOOLEAN : TokenJson(RunCaller, b)
    \/ \E s \in Statuses : AfResponse(RunCaller, s)

\* ------------------------------------------------------------ uploadAllLocalImages
\* The URLs the server gives to the uploads, in order.
NewUrls == <<"https://h/n1.png", "https://h/n2.png", "https://h/n3.png", "https://h/n4.png">>

\* ---- path resolution
\* A path is the sequence of its segments, the parts between the "/": a
\* leading "/" gives a first segment "", a leading "./" a first segment ".".
\* The path a document embeds is the text of the reference: the paths of the
\* documents above have one segment.  The paths of the model hold no
\* backslash, no "%20", no wiki brackets and no outer white space, which the
\* normalisation would change.  vaultFiles holds the entries of the vault: the
\* files and the folders, each with its path.

\* The note: d/Note.md.
NoteDir == <<"d">>
NoteBase == "Note"

FileAt(path) == [path |-> path, kind |-> "file"]
FolderAt(path) == [path |-> path, kind |-> "folder"]
NoEntry == [path |-> <<>>, kind |-> "none"]

\* vault.getAbstractFileByPath
EntryIn(S) == IF S = {} THEN NoEntry ELSE CHOOSE e \in S : TRUE
getAbstractFileByPath(path) == EntryIn({e \in vaultFiles : e.path = path})

\* decodeURIComponent throws on a segment with a malformed escape.
Malformed(s) == s = "f%.png"
DecodeSeg(s) ==
    IF s = "e%2541.png" THEN "e%41.png" ELSE IF s = "e%41.png" THEN "eA.png" ELSE s
Decodes(p) == \A n \in 1..Len(p) : ~Malformed(p[n])
decodeURIComponent(p) == [n \in 1..Len(p) |-> DecodeSeg(p[n])]

\* The normalisation of resolveImagePath and getAlternativePaths: a leading
\* "./" is stripped.
CleanPath(p) == IF p # <<>> /\ p[1] = "." THEN Tail(p) ELSE p

ResolveClean(c, dir) == IF c # <<>> /\ c[1] = "" THEN Tail(c) ELSE dir \o c

\* resolveImagePath: an absolute path is taken from the root of the vault,
\* another one from the folder of the note.
resolveImagePath(p, dir) == ResolveClean(CleanPath(p), dir)

\* try { decodeURIComponent(imagePath) } catch { imagePath }
DecodedOr(p) == IF Decodes(p) THEN decodeURIComponent(p) ELSE p

\* The variants of getAlternativePaths: raw, and its decoding unless it throws.
Variants(raw) == Distinct(<<raw>> \o (IF Decodes(raw) THEN <<decodeURIComponent(raw)>> ELSE <<>>))

\* The index of the first "attachments/" of v, or 0.
AttachmentsAt(v) == MinOr0({i \in 1..(Len(v) - 1) : v[i] = "attachments"})

RemoveAt(v, k) == SubSeq(v, 1, k - 1) \o SubSeq(v, k + 1, Len(v))

If(cond, list) == IF cond THEN list ELSE <<>>

\* The alternatives getAlternativePaths pushes for the variant v.
AlternativesOf(v, dir, base) ==
    <<resolveImagePath(v, dir)>>
    \o If(AttachmentsAt(v) # 0, <<RemoveAt(v, AttachmentsAt(v))>>)
    \o <<v>>
    \o If(~(Len(v) >= 2 /\ v[1] = "attachments"), <<<<"attachments">> \o v>>)
    \o If(dir # <<>>, <<dir \o v>>)
    \o <<<<"Attachments">> \o v>>
    \o If(v[Len(v)] # "", <<dir \o <<base, v[Len(v)]>>>>)

RECURSIVE AlternativesOfAll(_, _, _)
AlternativesOfAll(vs, dir, base) ==
    IF vs = <<>> THEN <<>>
    ELSE AlternativesOf(vs[1], dir, base) \o AlternativesOfAll(Tail(vs), dir, base)

\* filter(Boolean): the empty string goes.
NonEmptyPath(path) == path # <<>> /\ path # <<"">>

getAlternativePaths(p, dir, base) ==
    Distinct(SelectSeq(AlternativesOfAll(Variants(CleanPath(p)), dir, base), NonEmptyPath))

\* The paths uploadLocalImage probes one after the other: the resolved path,
\* then the alternatives.
Candidates(p) ==
    <<resolveImagePath(DecodedOr(p), NoteDir)>>
    \o getAlternativePaths(DecodedOr(p), NoteDir, NoteBase)

\* The index of the first candidate that getAbstractFileByPath finds, or 0.
FirstExisting(cands) ==
    MinOr0({n \in 1..Len(cands) : getAbstractFileByPath(cands[n]).kind # "none"})

\* The entry the probes end with, NoEntry when no candidate exists.
CandidateHit(cands, n) == IF n = 0 THEN NoEntry ELSE getAbstractFileByPath(cands[n])

\* The files of the vault named name.
FilesNamed(name) == {e \in vaultFiles : e.kind = "file" /\ e.path[Len(e.path)] = name}

\* findFileByBasename: the files among which the first of getFiles() named
\* basename is, or else the first named as basename decodes.
BasenameMatches(base) ==
    IF FilesNamed(base) # {} THEN FilesNamed(base)
    ELSE IF Malformed(base) THEN {}
    ELSE FilesNamed(DecodeSeg(base))

\* The last segment of the decoded path, which the basename search looks for.
BaseOf(p) == DecodedOr(p)[Len(DecodedOr(p))]

\* The entries uploadLocalImage can end its lookup with: the first existing
\* candidate, or without one a basename match, or nothing.
LookupOf(hit, guesses) ==
    IF hit.kind # "none" THEN {hit} ELSE IF guesses = {} THEN {NoEntry} ELSE guesses

Lookups(p) ==
    LookupOf(CandidateHit(Candidates(p), FirstExisting(Candidates(p))), BasenameMatches(BaseOf(p)))

\* uploadLocalImage finds a file for the path: it goes on unless the entry
\* is missing or is not a TFile.
Resolves(p) == \E e \in Lookups(p) : e.kind = "file"

\* How many of the outcomes are o.
Count(outs, o) == Cardinality({n \in 1..Len(outs) : outs[n] = o})

PersistAlways(uploaded) == TRUE

\* uploadAllLocalImages writes the document when success > 0.
ShouldPersist(uploaded) == uploaded > 0

\* The body of the upload loop ends for refs[idx] with outcome out (and the URL
\* url when it is "ok"); after the last reference the document is written and
\* the closing Notice shown.
UpRecord(out, url) ==
    LET outs == Append(outcomes, out)
        uploaded == Count(outs, "ok")
        step == <<"ref", cur, idx, out>>
    IN  /\ outcomes' = outs
        /\ urls' = Append(urls, url)
        /\ updated' = IF out = "ok" THEN replaceImageLink(updated, refs[idx], url)
                              ELSE updated
        /\ IF idx < Len(refs)
           THEN /\ idx' = idx + 1
                /\ rpc' = "up_ref"
                /\ log' = Append(log, step)
                /\ UNCHANGED <<docs, report>>
           ELSE /\ idx' = idx
                /\ rpc' = "done"
                /\ IF ShouldPersist(uploaded)
                   THEN /\ docs' = [docs EXCEPT ![cur] = updated']
                        /\ log' = log \o <<step, <<"write", cur>>>>
                   ELSE /\ docs' = docs
                        /\ log' = Append(log, step)
                /\ report' = <<uploaded, Len(refs)>>

\* uploadAllLocalImages starts: without an active file it ends, else it reads it.
UpBegin ==
    /\ rpc = "begin" /\ kind = "upload"
    /\ IF docs = <<>>
       THEN rpc' = "done" /\ cur' = cur
       ELSE rpc' = "up_read" /\ cur' = 1
    /\ UNCHANGED <<inventory, cleanVars>>
    /\ UNCHANGED <<clientVars, settingsToken, serverUrl, kind, entry, vaultVars>>
    /\ UNCHANGED <<content, updated, refs, idx, outcomes, urls, log, report>>

\* The text arrives: the local paths are extracted; with none the run ends.
UpRead ==
    /\ rpc = "up_read"
    /\ content' = docs[cur]
    /\ updated' = docs[cur]
    /\ refs' = extractLocalImagePaths(docs[cur])
    /\ log' = Append(log, <<"read", cur>>)
    /\ IF refs' = <<>>
       THEN rpc' = "done" /\ idx' = idx
       ELSE rpc' = "up_ref" /\ idx' = 1
    /\ UNCHANGED <<inventory, cleanVars>>
    /\ UNCHANGED <<clientVars, settingsToken, serverUrl, kind, entry, vaultVars>>
    /\ UNCHANGED <<cur, outcomes, urls, report>>

\* uploadLocalImage(refs[idx]): the file is looked up; without one it throws,
\* with one its bytes are read.
UpResolve ==
    /\ rpc = "up_ref"
    /\ IF Resolves(refs[idx])
       THEN /\ rpc' = "up_bin"
            /\ UNCHANGED <<docs, localVars>>
       ELSE /\ UpRecord("notfound", <<>>)
            /\ UNCHANGED <<cur, content, refs>>
    /\ UNCHANGED <<inventory, cleanVars>>
    /\ UNCHANGED <<clientVars, settingsToken, serverUrl, kind, entry, shape, vaultFiles, files>>

\* readBinary ends: with the bytes client.uploadBinary is called, which sends
\* the POST /upload.
UpReadBinary(ok) ==
    /\ rpc = "up_bin"
    /\ IF ok
       THEN /\ apiCall(RunCaller, "uploadBinary")
            /\ rpc' = "up_call"
            /\ UNCHANGED <<docs, localVars>>
       ELSE /\ UpRecord("failed", <<>>)
            /\ UNCHANGED <<clientVars, cur, content, refs>>
    /\ UNCHANGED <<inventory, cleanVars>>
    /\ UNCHANGED <<settingsToken, serverUrl, kind, entry, shape, vaultFiles, files>>

\* authorizedFetch has returned to uploadBinary: a response that is not ok
\* makes it throw, an ok one has its body parsed.
UpFetched ==
    /\ rpc = "up_call"
    /\ pc[RunCaller] = "done"
    /\ callReturned(RunCaller)
    /\ IF result[RunCaller] = "ok"
       THEN /\ rpc' = "up_json"
            /\ UNCHANGED <<docs, localVars>>
       ELSE /\ UpRecord("failed", <<>>)
            /\ UNCHANGED <<cur, content, refs>>
    /\ UNCHANGED <<isFetchingToken, configToken, netTokens>>
    /\ UNCHANGED <<inventory, cleanVars>>
    /\ UNCHANGED <<settingsToken, serverUrl, kind, entry, shape, vaultFiles, files>>

\* The body of the upload response: a URL, no JSON, or JSON without a URL.
UpJson(body) ==
    /\ rpc = "up_json"
    /\ IF body = "url"
       THEN UpRecord("ok", <<NewUrls[Count(outcomes, "ok") + 1]>>)
       ELSE UpRecord("failed", <<>>)
    /\ UNCHANGED <<inventory, cleanVars>>
    /\ UNCHANGED <<clientVars, settingsToken, serverUrl, kind, entry, shape, vaultFiles, files>>
    /\ UNCHANGED <<cur, content, refs>>

\* The references of the documents of the upload runs.
UploadRefs ==
    {<<"md", "a.png">>, <<"html", "a.png">>, <<"wiki", "b.png">>, <<"md", "b.png">>,
     <<"md", "https://h/x.png">>}

UploadInit ==
    /\ \E t \in {0, 1} : PluginInit(t)
    /\ serverUrl = "https://h/api/v1"
    /\ \E d \in DocsUpTo(UploadRefs, {" ", "\n"}, MaxRefs) :
         /\ shape = <<d>>
         /\ docs = <<Render(d)>>
    /\ vaultFiles \in SUBSET {FileAt(<<"d", "a.png">>), FileAt(<<"attachments", "b.png">>)}
    /\ files = {}
    /\ inventory = <<>> /\ inventory0 = <<>>

UploadNext ==
    \/ \E e \in {"ribbon", "command"} : Invoke("upload", e)
    \/ EnsureReturned
    \/ RunClientNext
    \/ UpBegin
    \/ UpRead
    \/ UpResolve
    \/ \E ok \in BOOLEAN : UpReadBinary(ok)
    \/ UpFetched
    \/ \E body \in {"url", "badjson", "nourl"} : UpJson(body)

\* One run of uploadAllLocalImages on the active note.
SpecUpload == UploadInit /\ [][UploadNext]_vars

\* ------------------------------------------------------------ claims C3-C5
AfCallers == {c \in Callers : op[c] = "deleteImageByKey"}

\* C3: in every reachable state of one LskyClient, whatever the interleaving of
\* its getToken callers (direct, or inside a 401 retry of authorizedFetch), at
\* most one POST /tokens request is in flight.
C3_AtMostOneTokenRequestInFlight == netTokens <= 1

\* One POST /tokens is in flight while a direct caller and a caller inside a
\* 401 retry both wait in the poll loop.
C3_Witness ==
    /\ netTokens = 1
    /\ \E c, d \in Callers :
        /\ pc[c] = "gt_wait" /\ op[c] = "getToken"
        /\ pc[d] = "gt_wait" /\ op[d] = "deleteImageByKey"

\* C4: when two getToken calls are made while an acquisition is in flight and
\* every call ends with a token, exactly one POST /tokens has reached the
\* network.
C4_ExactlyOneAuthenticationRequest ==
    ( /\ \A c \in Callers : op[c] = "getToken" /\ pc[c] = "done" /\ result[c] = "token"
      /\ Cardinality({c \in Callers : waited[c]}) >= 2 )
    => tokenPosts = 1

\* C5 as stated: one authorizedFetch call with retry allowed sends at most
\* twice and refreshes at most once; a 401 on the first send is followed by one
\* refresh and one re-send with retry disabled; a 401 on the re-send is
\* surfaced as the failure 'HTTP 401'; no other status is retried.
C5_RetryOnceAsStated ==
    \A c \in AfCallers :
        /\ sends[c] <= 2
        /\ refreshes[c] <= 1
        /\ (pc[c] = "done" /\ resps[c][1] = 401)
              => refreshes[c] = 1 /\ sends[c] = 2 /\ ~retry401[c]
        /\ (pc[c] = "done" /\ Len(resps[c]) = 2 /\ resps[c][2] = 401)
              => result[c] = "HTTP 401"
        /\ (Len(resps[c]) >= 1 /\ resps[c][1] # 401) => sends[c] = 1 /\ refreshes[c] = 0

\* C5 as amended: the re-send follows the refresh only when the refresh yields
\* a token; when getToken throws, authorizedFetch throws too and nothing is
\* sent again.
C5_RetryOnce ==
    \A c \in AfCallers :
        /\ sends[c] <= 2
        /\ refreshes[c] <= 1
        /\ (pc[c] = "done" /\ resps[c][1] = 401)
              => /\ refreshes[c] = 1
                 /\ refreshed[c] = "ok" => sends[c] = 2 /\ ~retry401[c]
                 /\ refreshed[c] = "fail" => sends[c] = 1 /\ result[c] = "error"
                 /\ refreshed[c] \in {"ok", "fail"}
        /\ (pc[c] = "done" /\ Len(resps[c]) = 2 /\ resps[c][2] = 401)
              => result[c] = "HTTP 401"
        /\ (Len(resps[c]) >= 1 /\ resps[c][1] # 401) => sends[c] = 1 /\ refreshes[c] = 0

\* A call got 401 twice: one refresh, one re-send, and the failure is surfaced.
C5_Witness ==
    \E c \in AfCallers :
        pc[c] = "done" /\ resps[c] = <<401, 401>> /\ refreshes[c] = 1 /\ sends[c] = 2


\* ------------------------------------------------------------ claims C7, C8
\* The positions in the log of the writes of document text.
Writes == {n \in 1..Len(log) : log[n][1] = "write"}

\* The texts the documents held at the start.
StartDocs == [d \in 1..Len(shape) |-> Render(shape[d])]

\* The URL the upload of path w returned in this run, or <<>>.
UploadedUrl(w) ==
    MinOr0({n \in 1..Len(outcomes) : outcomes[n] = "ok" /\ refs[n] = <<w>>})

\* A reference rewritten to the URL u: the same form, the new target.
Rewrite(seg, u) ==
    IF seg.form = "html" THEN Html(u) ELSE <<"!", "[", "]", "(", u, ")">>

RECURSIVE RenderUploaded(_)
\* The start text of document d with the references of the uploaded paths,
\* and only those, rewritten.
RenderUploaded(d) ==
    IF d = <<>> THEN <<>>
    ELSE (IF UploadedUrl(d[1].w) = 0 THEN Form(d[1].form, d[1].w)
          ELSE Rewrite(d[1], urls[UploadedUrl(d[1].w)][1]))
           \o <<d[1].sep>> \o RenderUploaded(Tail(d))

\* C7: when a reference of an upload batch fails resolution, every later
\* reference is still attempted and counted, and the persisted document is
\* the start text with exactly the rewrites of the successful references.
C7_PersistedTextAsStated ==
    (kind = "upload" /\ rpc = "done" /\ Count(outcomes, "notfound") > 0) =>
        /\ Len(outcomes) = Len(refs)
        /\ report[1] = Count(outcomes, "ok")
        /\ Writes # {} => docs[1] = RenderUploaded(shape[1])

\* C8: a run of uploadAllLocalImages writes the document at most once, after
\* every reference has been processed, and exactly when an upload succeeded;
\* without a write the text is the one the run started with.
C8_WriteOnceIffSuccess ==
    kind = "upload" =>
        /\ Cardinality(Writes) <= 1
        /\ \A n \in Writes :
             /\ rpc = "done"
             /\ \A k \in 1..Len(refs) : \E m \in 1..(n - 1) : log[m][1] = "ref" /\ log[m][3] = k
        /\ (rpc = "done" /\ refs # <<>>) => (Writes # {} <=> Count(outcomes, "ok") > 0)
        /\ Writes = {} => docs = StartDocs

C8_Witness ==
    /\ kind = "upload" /\ rpc = "done"
    /\ Len(refs) = 2
    /\ outcomes = <<"ok", "notfound">>
    /\ Writes = {Len(log)}
    /\ docs # StartDocs


\* ------------------------------------------------------------ download.ts
\* vault.read, vault.modify and createFolder on the documents and folders of
\* the vault succeed; the fetch and the write of an image, whose failures the
\* loops catch, end either way.

\* fileNameFromUrl: the last segment of the path of the URL.
fileNameFromUrl(url) ==
    IF url = <<"https://h/y.png">> THEN <<"y.png">>
    ELSE IF url = <<"https://h/z.png">> THEN <<"z.png">>
    ELSE IF url = <<"https://o/w.png">> THEN <<"w.png">>
    ELSE <<"x.png">>

\* The documents the operation goes through: the active one, or all of them.
DlTargets == IF kind = "dlCurrent" THEN {1} \cap DOMAIN docs ELSE DOMAIN docs

DlPersistsNever == FALSE

\* Both operations write the document after its loop, whatever the loop did.
DlPersists == TRUE

\* The operation goes to document d: past the last one it ends, else it reads it.
DlGoto(d) ==
    /\ cur' = d
    /\ rpc' = IF d \in DlTargets THEN "dl_read" ELSE "done"

\* The operation starts: without an origin it reports and returns; without a
\* document it ends, else it reads the first.
DlBegin ==
    /\ rpc = "begin" /\ kind \in {"dlCurrent", "dlAll"}
    /\ IF NoOrigin(getServerOrigin(serverUrl))
       THEN ReturnInvalid /\ UNCHANGED cur
       ELSE DlGoto(1) /\ UNCHANGED log
    /\ UNCHANGED <<inventory, cleanVars>>
    /\ UNCHANGED <<clientVars, settingsToken, serverUrl, kind, entry, vaultVars>>
    /\ UNCHANGED <<content, updated, refs, idx, outcomes, urls, report>>

\* The text arrives: the URLs under the origin are extracted.  Without any,
\* the current-note operation ends and the all-notes one goes to the next
\* document; with some, the folder of the document is ensured.
DlRead ==
    /\ rpc = "dl_read"
    /\ content' = docs[cur]
    /\ updated' = docs[cur]
    /\ refs' = extractRemoteImageUrls(docs[cur])
    /\ outcomes' = <<>>
    /\ log' = Append(log, <<"read", cur, refs'>>)
    /\ IF refs' = <<>>
       THEN DlGoto(cur + 1) /\ idx' = idx
       ELSE rpc' = "dl_folder" /\ idx' = 1 /\ cur' = cur
    /\ UNCHANGED <<inventory, cleanVars>>
    /\ UNCHANGED <<clientVars, settingsToken, serverUrl, kind, entry, vaultVars, urls, report>>

\* ensureFolder returns: the loop starts and fetches the first URL.
DlEnsureFolder ==
    /\ rpc = "dl_folder"
    /\ rpc' = "dl_fetch"
    /\ log' = Append(log, <<"fetch", cur, idx, refs[idx]>>)
    /\ UNCHANGED <<inventory, cleanVars>>
    /\ UNCHANGED <<clientVars, settingsToken, serverUrl, kind, entry, vaultVars>>
    /\ UNCHANGED <<cur, content, updated, refs, idx, outcomes, urls, report>>

\* The body of the download loop ends for refs[idx] with outcome out.  The
\* next URL is fetched; after the last one the document is written, and the
\* operation goes to the next document.
DlRecord(out) ==
    LET step == <<"ref", cur, idx, out>>
    IN  /\ outcomes' = Append(outcomes, out)
        /\ updated' = IF out = "ok"
                      THEN replaceUrlWithRelative(updated, refs[idx], fileNameFromUrl(refs[idx]))
                      ELSE updated
        /\ IF idx < Len(refs)
           THEN /\ idx' = idx + 1
                /\ log' = log \o <<step, <<"fetch", cur, idx + 1, refs[idx + 1]>>>>
                /\ rpc' = "dl_fetch"
                /\ UNCHANGED <<docs, cur, report>>
           ELSE /\ idx' = idx
                /\ IF DlPersists
                   THEN /\ docs' = [docs EXCEPT ![cur] = updated']
                        /\ log' = log \o <<step, <<"write", cur>>>>
                   ELSE /\ docs' = docs
                        /\ log' = Append(log, step)
                /\ DlGoto(cur + 1)
                /\ report' = IF kind = "dlCurrent" THEN <<Len(refs)>> ELSE report

\* requestUrl ends: with the bytes the image file is written, else the
\* reference is given up.
DlFetch(ok) ==
    /\ rpc = "dl_fetch"
    /\ IF ok
       THEN /\ rpc' = "dl_store"
            /\ UNCHANGED <<docs, cur, updated, idx, outcomes, log, report>>
       ELSE DlRecord("failed")
    /\ UNCHANGED <<inventory, cleanVars>>
    /\ UNCHANGED <<clientVars, settingsToken, serverUrl, kind, entry, shape, vaultFiles, files>>
    /\ UNCHANGED <<content, refs, urls>>

\* modifyBinary or createBinary ends: the stored file holds the bytes and the
\* reference is rewritten, or the reference is given up.
DlStore(ok) ==
    /\ rpc = "dl_store"
    /\ IF ok
       THEN /\ files' = {f \in files : ~(f[1] = cur /\ f[2] = fileNameFromUrl(refs[idx]))}
                          \cup {<<cur, fileNameFromUrl(refs[idx]), refs[idx]>>}
            /\ DlRecord("ok")
       ELSE /\ files' = files
            /\ DlRecord("failed")
    /\ UNCHANGED <<inventory, cleanVars>>
    /\ UNCHANGED <<clientVars, settingsToken, serverUrl, kind, entry, shape, vaultFiles>>
    /\ UNCHANGED <<content, refs, urls>>

RECURSIVE VaultShapes(_, _, _, _)
\* The vaults of nd documents that hold at most n references of R in all.
VaultShapes(R, Seps, nd, n) ==
    IF nd = 0 THEN {<<>>}
    ELSE UNION {{<<d>> \o rest : d \in DocShapes(R, Seps, k),
                                rest \in VaultShapes(R, Seps, nd - 1, n - k)} : k \in 0..n}

\* The references of the documents of the download runs.
DownloadRefs ==
    {<<"md", "https://h/x.png">>, <<"md", "https://h/y.png">>, <<"html", "https://h/x.png">>,
     <<"wiki", "https://h/d/x.png">>, <<"md", "https://o/w.png">>}

DownloadInit ==
    /\ \E t \in {0, 1} : PluginInit(t)
    /\ serverUrl \in ServerUrls
    /\ shape \in VaultShapes(DownloadRefs, {" ", "\n"}, NumDocs, MaxRefs)
    /\ docs = [d \in 1..Len(shape) |-> Render(shape[d])]
    /\ vaultFiles = {}
    /\ files = {}
    /\ inventory = <<>> /\ inventory0 = <<>>

DownloadNext ==
    \/ \E k \in {"dlCurrent", "dlAll"}, e \in {"ribbon", "command"} : Invoke(k, e)
    \/ EnsureReturned
    \/ TokenFetchFail(RunCaller)
    \/ TokenFetchOk(RunCaller)
    \/ \E b \in BOOLEAN : TokenJson(RunCaller, b)
    \/ DlBegin
    \/ DlRead
    \/ DlEnsureFolder
    \/ \E ok \in BOOLEAN : DlFetch(ok)
    \/ \E ok \in BOOLEAN : DlStore(ok)

\* One run of downloadImagesForCurrentNote or downloadImagesForAllNotes.
SpecDownload == DownloadInit /\ [][DownloadNext]_vars

\* ------------------------------------------------------------ claims C9, C10
\* The URLs a download run extracts from document d.
DlRefs(d) == extractRemoteImageUrls(StartDocs[d])

\* The positions in the log of the fetches, the ended reference steps and the
\* text writes of document d.
FetchEvents(d) == {m \in DOMAIN log : log[m][1] = "fetch" /\ log[m][2] = d}
RefEvents(d) == {m \in DOMAIN log : log[m][1] = "ref" /\ log[m][2] = d}
WriteEvents(d) == {m \in DOMAIN log : log[m] = <<"write", d>>}
\* The positions of the reads of the documents after d.
LaterReads(d) == {m \in DOMAIN log : log[m][1] = "read" /\ log[m][2] > d}

\* The URLs extractRemoteImageUrls returned when document d was read, <<>>
\* while it has not been read.
ReadEvents(d) == {m \in DOMAIN log : log[m][1] = "read" /\ log[m][2] = d}
Extracted(d) == IF ReadEvents(d) = {} THEN <<>> ELSE log[CHOOSE m \in ReadEvents(d) : TRUE][3]

\* The download of the URL w of document d failed.
DlFailed(d, w) ==
    \E m \in RefEvents(d) : log[m][4] = "failed" /\ DlRefs(d)[log[m][3]] = <<w>>

\* The text sub stands somewhere in t.
Occurs(sub, t) == \E i \in 1..Len(t) : LitAt(t, i, sub)

\* C9: at the end of a download run every reference of every document gone
\* through has been processed, and a reference whose fetch or file write
\* failed stands in the persisted text as it stood at the start.
C9_FailedReferenceKept ==
    (kind \in {"dlCurrent", "dlAll"} /\ rpc = "done") =>
        \A d \in DlTargets :
            /\ \A n \in 1..Len(DlRefs(d)) : \E m \in RefEvents(d) : log[m][3] = n
            /\ \A k \in 1..Len(shape[d]) :
                 DlFailed(d, shape[d][k].w) =>
                     Occurs(Form(shape[d][k].form, shape[d][k].w), docs[d])

\* C10: in a download run the references of a document are fetched one at a
\* time in extraction order, each after the step before it has ended; a
\* document with references is written exactly once, after all its reference
\* steps and before a later document is read, and never between two of its
\* reference steps.
C10_SequentialThenPersistedOnce ==
    kind \in {"dlCurrent", "dlAll"} =>
        \A d \in DOMAIN docs :
            LET extracted == Extracted(d)
                fetches == FetchEvents(d)
                steps == RefEvents(d)
                writes == WriteEvents(d)
                reads == LaterReads(d)
            IN  /\ \A m \in fetches :
                     /\ log[m][3] = 1 + Cardinality({k \in steps : k < m})
                     /\ log[m][3] = 1 + Cardinality({k \in fetches : k < m})
                     /\ log[m][4] = extracted[log[m][3]]
                /\ \A m \in steps : log[m][3] = Cardinality({k \in fetches : k < m})
                /\ Cardinality(writes) <= 1
                /\ \A m \in writes :
                     /\ \A n \in 1..Len(extracted) : \E k \in steps : k < m /\ log[k][3] = n
                     /\ \A k \in steps \cup fetches : k < m
                     /\ \A r \in reads : m < r
                /\ (extracted # <<>> /\ (reads # {} \/ (rpc = "done" /\ d \in DlTargets)))
                     => writes # {}

C10_Witness ==
    /\ kind = "dlAll" /\ rpc = "done"
    /\ Len(DlRefs(1)) = 2
    /\ RefEvents(1) # {} /\ WriteEvents(1) # {}
    /\ \E r \in LaterReads(1) : \A m \in WriteEvents(1) : m < r

\* ------------------------------------------------------------ cleanupUnusedImages
\* The images the server can hold: key and links.url.
ItemUniverse ==
    << [key |-> "A", url |-> <<"https://h/x.png">>], [key |-> "B", url |-> <<"https://h/y.png">>],
       [key |-> "C", url |-> <<"https://h/d/x.png">>], [key |-> "D", url |-> <<"https://h/z.png">>],
       [key |-> "E", url |-> <<"https://h/n1.png">>] >>

\* data.data of page p of GET /images.
PageItems(p) ==
    Slice(inventory, (p - 1) * PageSize + 1,
          IF p * PageSize < Len(inventory) THEN p * PageSize ELSE Len(inventory))

\* data.last_page of GET /images.
LastPage ==
    IF inventory = <<>> THEN 1 ELSE (Len(inventory) + PageSize - 1) \div PageSize

\* The elements of a list, as a set.
Range(list) == {list[n] : n \in 1..Len(list)}

UnusedAny(img) == TRUE

\* The filter of the orphans: !used.includes(img.links.url).
Unused(img) == img.url \notin Range(used)

ConfirmedAnyway(answer) == TRUE

\* The test of the answer of confirmCleanup: the deletes start when it is true.
Confirmed(answer) == answer

ContinueNever == FALSE

\* The catch of the delete loop: a delete that throws does not end the loop.
ContinueAfterFailure == TRUE

\* The startup timer fires with autoCleanupOnStartup set: the user is asked.
Startup ==
    /\ rpc = "idle"
    /\ pc[RunCaller] = "idle"
    /\ kind' = "cleanup"
    /\ entry' = "startup"
    /\ rpc' = "auto_confirm"
    /\ UNCHANGED <<clientVars, settingsToken, serverUrl, vaultVars, localVars, inventory, cleanVars>>

\* The answer to confirmAutoCleanup: declined, the callback returns.
AutoConfirm(answer) ==
    /\ rpc = "auto_confirm"
    /\ IF answer
       THEN ensureClient
       ELSE rpc' = "done" /\ UNCHANGED clientVars
    /\ UNCHANGED <<settingsToken, serverUrl, kind, entry, vaultVars, localVars, inventory, cleanVars>>

\* cleanupUnusedImages starts: without an origin it reports and returns, else
\* it starts both halves of its Promise.all: the scan of the documents and
\* listAllImages, which fetches page 1.
ClBegin ==
    /\ rpc = "begin" /\ kind = "cleanup"
    /\ IF NoOrigin(getServerOrigin(serverUrl))
       THEN /\ ReturnInvalid
            /\ UNCHANGED <<clientVars, page, last, cur>>
       ELSE /\ apiCall(RunCaller, "listAllImages")
            /\ rpc' = "cl_list"
            /\ page' = 1
            /\ last' = 1
            /\ cur' = 1
            /\ log' = Append(log, <<"list", 1>>)
    /\ UNCHANGED <<settingsToken, serverUrl, kind, entry, vaultVars, inventory>>
    /\ UNCHANGED <<content, updated, refs, idx, outcomes, urls, report>>
    /\ UNCHANGED <<inventory0, all, used, toDelete, confirmed, success, failed>>

\* The listing is under way or has ended well.
Listing == rpc \in {"cl_list", "cl_list_json", "cl_list_timer", "cl_listed"}

\* collectUsedImageUrls: the text of the next document arrives and the URLs
\* under the origin in it join the set.
ClScan ==
    /\ Listing
    /\ cur \in DOMAIN docs
    /\ used' = Distinct(used \o extractRemoteImageUrls(docs[cur]))
    /\ cur' = cur + 1
    /\ UNCHANGED <<clientVars, runVars, vaultVars, inventory>>
    /\ UNCHANGED <<content, updated, refs, idx, outcomes, urls, log, report>>
    /\ UNCHANGED <<inventory0, page, last, all, toDelete, confirmed, success, failed>>

ResOkAlways(r) == TRUE

\* The test of listAllImages on what authorizedFetch returned: res.ok, and no throw.
ResOk(r) == r = "ok"

\* authorizedFetch has returned to listAllImages: a response that is not ok
\* makes it throw, which ends cleanupUnusedImages; an ok one has its body parsed.
ClListFetched ==
    /\ rpc = "cl_list"
    /\ pc[RunCaller] = "done"
    /\ callReturned(RunCaller)
    /\ rpc' = IF ResOk(result[RunCaller]) THEN "cl_list_json" ELSE "failed"
    /\ log' = Append(log, <<"listed", page, sends[RunCaller], result[RunCaller]>>)
    /\ UNCHANGED <<isFetchingToken, configToken, netTokens>>
    /\ UNCHANGED <<settingsToken, serverUrl, kind, entry, vaultVars, inventory, cleanVars>>
    /\ UNCHANGED <<cur, content, updated, refs, idx, outcomes, urls, report>>

\* The body of a page: the page of the inventory, JSON without data, or no JSON.
ClListJson(body) ==
    /\ rpc = "cl_list_json"
    /\ IF body = "badjson"
       THEN /\ rpc' = "failed"
            /\ UNCHANGED <<all, last, page>>
       ELSE /\ rpc' = "cl_list_timer"
            /\ all' = all \o (IF body = "page" THEN PageItems(page) ELSE <<>>)
            /\ last' = IF body = "page" THEN LastPage ELSE page
            /\ page' = page + 1
    /\ log' = Append(log, <<"body", page, body>>)
    /\ UNCHANGED <<clientVars, settingsToken, serverUrl, kind, entry, vaultVars, inventory>>
    /\ UNCHANGED <<cur, content, updated, refs, idx, outcomes, urls, report>>
    /\ UNCHANGED <<inventory0, used, toDelete, confirmed, success, failed>>

MorePagesNever == FALSE

\* The test of the do-while loop of listAllImages.
MorePages == page <= last

\* The 80 ms timer fires: the next page is fetched, or the listing has ended.
ClListTimer ==
    /\ rpc = "cl_list_timer"
    /\ IF MorePages
       THEN /\ apiCall(RunCaller, "listAllImages")
            /\ rpc' = "cl_list"
            /\ log' = Append(log, <<"list", page>>)
       ELSE /\ rpc' = "cl_listed"
            /\ UNCHANGED <<clientVars, log>>
    /\ UNCHANGED <<settingsToken, serverUrl, kind, entry, vaultVars, inventory, cleanVars>>
    /\ UNCHANGED <<cur, content, updated, refs, idx, outcomes, urls, report>>

\* Both halves have ended: the orphans are filtered; without any the
\* operation ends, else the user is asked.
ClJoin ==
    /\ rpc = "cl_listed"
    /\ cur \notin DOMAIN docs
    /\ toDelete' = SelectSeq(all, Unused)
    /\ rpc' = IF toDelete' = <<>> THEN "done" ELSE "cl_confirm"
    /\ UNCHANGED <<clientVars, settingsToken, serverUrl, kind, entry, vaultVars, localVars, inventory>>
    /\ UNCHANGED <<inventory0, page, last, all, used, confirmed, success, failed>>

\* client.deleteImageByKey(toDelete[n].key) is called: the DELETE goes out.
ClDelete(n) ==
    /\ apiCall(RunCaller, "deleteImageByKey")
    /\ idx' = n
    /\ log' = Append(log, <<"delete", toDelete[n].key>>)
    /\ rpc' = "cl_delete"

\* The answer to confirmCleanup: declined, the operation ends; else the
\* first delete is issued.
ClConfirm(answer) ==
    /\ rpc = "cl_confirm"
    /\ confirmed' = IF answer THEN "yes" ELSE "no"
    /\ IF Confirmed(answer)
       THEN ClDelete(1)
       ELSE /\ rpc' = "done"
            /\ UNCHANGED <<clientVars, idx, log>>
    /\ UNCHANGED <<settingsToken, serverUrl, kind, entry, vaultVars, inventory>>
    /\ UNCHANGED <<cur, content, updated, refs, outcomes, urls, report>>
    /\ UNCHANGED <<inventory0, page, last, all, used, toDelete, success, failed>>

\* deleteImageByKey has returned or thrown: the URL joins the list of its
\* outcome and the 150 ms pause starts.
ClDeleted ==
    /\ rpc = "cl_delete"
    /\ pc[RunCaller] = "done"
    /\ callReturned(RunCaller)
    /\ log' = Append(log, <<"deleted", toDelete[idx].key, result[RunCaller] = "ok">>)
    /\ IF result[RunCaller] = "ok"
       THEN /\ success' = Append(success, toDelete[idx].url)
            /\ rpc' = "cl_pause"
            /\ UNCHANGED failed
       ELSE /\ failed' = IF ContinueAfterFailure THEN Append(failed, toDelete[idx].url)
                         ELSE failed
            /\ rpc' = IF ContinueAfterFailure THEN "cl_pause" ELSE "failed"
            /\ UNCHANGED success
    /\ UNCHANGED <<isFetchingToken, configToken, netTokens>>
    /\ UNCHANGED <<settingsToken, serverUrl, kind, entry, vaultVars, inventory>>
    /\ UNCHANGED <<cur, content, updated, refs, idx, outcomes, urls, report>>
    /\ UNCHANGED <<inventory0, page, last, all, used, toDelete, confirmed>>

\* The pause ends: the next delete is issued, or the result is shown.
ClPause ==
    /\ rpc = "cl_pause"
    /\ IF idx < Len(toDelete)
       THEN ClDelete(idx + 1)
       ELSE /\ rpc' = "done"
            /\ UNCHANGED <<clientVars, idx, log>>
    /\ UNCHANGED <<settingsToken, serverUrl, kind, entry, vaultVars, inventory>>
    /\ UNCHANGED <<cur, content, updated, refs, outcomes, urls, report>>
    /\ UNCHANGED cleanVars

\* The documents of the cleanup runs: without a reference, with one, or with
\* two on one line.
CleanupDocs ==
    { <<>>,
      <<Seg("md", "https://h/x.png", "\n")>>,
      <<Seg("html", "https://h/y.png", "\n")>>,
      <<Seg("md", "https://h/x.png", " "), Seg("html", "https://h/y.png", "\n")>> }

CleanupInit ==
    /\ \E t \in {0, 1} : PluginInit(t)
    /\ serverUrl \in ServerUrls
    /\ shape \in [1..NumDocs -> CleanupDocs]
    /\ docs = [d \in 1..Len(shape) |-> Render(shape[d])]
    /\ vaultFiles = {}
    /\ files = {}
    /\ \E n \in 0..MaxItems : inventory = SubSeq(ItemUniverse, 1, n)
    /\ inventory0 = inventory

CleanupNext ==
    \/ \E e \in {"ribbon", "command"} : Invoke("cleanup", e)
    \/ Startup
    \/ \E b \in BOOLEAN : AutoConfirm(b)
    \/ EnsureReturned
    \/ RunClientNext
    \/ ClBegin
    \/ ClScan
    \/ ClListFetched
    \/ \E body \in {"page", "nodata", "badjson"} : ClListJson(body)
    \/ ClListTimer
    \/ ClJoin
    \/ \E b \in BOOLEAN : ClConfirm(b)
    \/ ClDeleted
    \/ ClPause

\* One run of cleanupUnusedImages, started from a ribbon button, a command or
\* the startup timer.
SpecCleanup == CleanupInit /\ [][CleanupNext]_vars

\* ------------------------------------------------------------ claims C1, C2, C6
\* The positions in the log of the delete requests and of their ends.
DeleteEvents == {m \in DOMAIN log : log[m][1] = "delete"}
DeletedEvents == {m \in DOMAIN log : log[m][1] = "deleted"}

\* C1: in a run of cleanupUnusedImages, from whichever entry point, a delete
\* request is issued only when the orphan set is not empty and confirmCleanup
\* answered true in this run; a run that ends without that answer leaves the
\* remote inventory as it was.
C1_NoDeleteWithoutConfirmation ==
    kind = "cleanup" =>
        /\ (DeleteEvents # {} \/ op[RunCaller] = "deleteImageByKey")
             => (confirmed = "yes" /\ toDelete # <<>>)
        /\ (rpc = "done" /\ confirmed # "yes") => inventory = inventory0

C1_Witness ==
    /\ kind = "cleanup" /\ entry = "startup" /\ rpc = "done"
    /\ confirmed = "no"
    /\ toDelete # <<>>
    /\ inventory = inventory0

\* C2: the orphans are exactly the listed images whose URL is not in the
\* used-URL set, every key of a delete request is the key of an orphan, and an
\* image whose URL is in the used-URL set stays in the inventory.
C2_OrphansAreTheUnusedListed ==
    (kind = "cleanup" /\ rpc \in {"cl_confirm", "cl_delete", "cl_pause", "done"}) =>
        /\ Range(toDelete) = {img \in Range(all) : img.url \notin Range(used)}
        /\ \A m \in DeleteEvents :
             \E img \in Range(toDelete) : img.key = log[m][2] /\ img.url \notin Range(used)
        /\ \A img \in Range(inventory0) : img.url \in Range(used) => img \in Range(inventory)

C2_Witness ==
    /\ kind = "cleanup" /\ rpc = "done"
    /\ Len(all) = 3
    /\ used = <<ItemUniverse[2].url>>
    /\ toDelete = <<ItemUniverse[1], ItemUniverse[3]>>
    /\ inventory = <<ItemUniverse[2]>>

\* C6: after the confirmation the orphans get one delete request each, in the
\* order of the orphan list, each issued after the one before it has ended;
\* a delete that fails does not stop the later ones, and at the end every
\* orphan is in exactly one of the success list and the failure list, once.
C6_OneDeletePerOrphanInOrder ==
    kind = "cleanup" =>
        /\ \A m \in DeleteEvents :
             /\ Cardinality({k \in DeleteEvents : k < m}) < Len(toDelete)
             /\ log[m][2] = toDelete[1 + Cardinality({k \in DeleteEvents : k < m})].key
             /\ Cardinality({k \in DeletedEvents : k < m}) = Cardinality({k \in DeleteEvents : k < m})
        /\ confirmed = "yes" => rpc \in {"cl_delete", "cl_pause", "done"}
        /\ (rpc = "done" /\ confirmed = "yes") =>
             /\ Cardinality(DeleteEvents) = Len(toDelete)
             /\ Len(success) + Len(failed) = Len(toDelete)
             /\ Range(success) \cap Range(failed) = {}
             /\ \A n \in 1..Len(toDelete) :
                  Cardinality({k \in 1..Len(success) : success[k] = toDelete[n].url})
                    + Cardinality({k \in 1..Len(failed) : failed[k] = toDelete[n].url}) = 1

C6_Witness ==
    /\ kind = "cleanup" /\ rpc = "done" /\ confirmed = "yes"
    /\ Len(toDelete) = 2
    /\ failed = <<toDelete[1].url>>
    /\ success = <<toDelete[2].url>>

\* ------------------------------------------------------------ claim C15
\* The pages listAllImages requested, in the order of the requests.
ListEvents == {m \in DOMAIN log : log[m][1] = "list"}
ListedEvents == {m \in DOMAIN log : log[m][1] = "listed"}
BodyEvents == {m \in DOMAIN log : log[m][1] = "body"}

\* data.last_page of the inventory the run started with.
LastPage0 ==
    IF inventory0 = <<>> THEN 1 ELSE (Len(inventory0) + PageSize - 1) \div PageSize

\* Every page request so far was answered at once with an ok status and a
\* body that holds the page.
AllPagesServed ==
    /\ \A m \in ListedEvents : log[m][3] = 1 /\ log[m][4] = "ok"
    /\ \A m \in BodyEvents : log[m][3] = "page"

\* listAllImages has returned its list.
ListingReturned ==
    rpc \in {"cl_listed", "cl_confirm", "cl_delete", "cl_pause"}
      \/ (rpc = "done" /\ ListEvents # {})

\* C15: when the server reports a constant last_page L and serves every page,
\* listAllImages requests the pages 1..L in ascending order, each once and
\* each after the page before it has been received, and returns the items of
\* the pages in page order.
C15_PagesInOrderOnce ==
    (kind = "cleanup" /\ AllPagesServed) =>
        /\ \A m \in ListEvents :
             /\ log[m][2] = 1 + Cardinality({k \in ListEvents : k < m})
             /\ log[m][2] <= LastPage0
             /\ Cardinality({k \in BodyEvents : k < m}) = log[m][2] - 1
        /\ ListingReturned =>
             /\ Cardinality(ListEvents) = LastPage0
             /\ all = inventory0

\* A listing of two pages or more has returned.
C15_Witness ==
    /\ kind = "cleanup" /\ AllPagesServed /\ rpc = "cl_listed"
    /\ LastPage0 >= 2
    /\ Cardinality(ListEvents) = LastPage0
    /\ all = inventory0

\* ------------------------------------------------------------ claims C16-C18
\* ensureClient asked for a token, since the settings held none, and getToken
\* threw: the Notice of the failure has been shown.
TokenFailedAtStart ==
    /\ kind # "none"
    /\ settingsToken = 0
    /\ rpc \notin {"idle", "auto_confirm", "ensure"}

\* C16: when the token acquisition of ensureClient fails, the operation is
\* given up: it sends no listing, delete or upload request and writes no
\* document.
C16_AbortedWithoutToken ==
    TokenFailedAtStart =>
        /\ \A m \in DOMAIN log : log[m][1] \notin {"list", "delete", "write"}
        /\ op[RunCaller] = "none"

\* C17: outside ensureClient's own acquisition, whose result it stores at
\* once, the token of the plugin settings is the token the client holds, also
\* after the refresh that a 401 sets off inside authorizedFetch.
C17_SettingsHoldClientToken ==
    (rpc # "ensure" /\ pc[RunCaller] \notin {"gt_fetch", "gt_json", "gt_wait"})
        => settingsToken = configToken

\* C18: a page of the listing that arrives with an ok status and a body
\* without the expected data ends listAllImages, and the operation with it, in
\* a failure; it is not taken for an empty or a last page.
C18_ShapelessBodyFails ==
    (kind = "cleanup" /\ \E m \in BodyEvents : log[m][3] = "nodata") => rpc = "failed"

\* ------------------------------------------------------------ claim C19
\* The download of the URL w of document d succeeded.
DlFetched(d, w) ==
    \E m \in RefEvents(d) : log[m][4] = "ok" /\ Extracted(d)[log[m][3]] = <<w>>

RECURSIVE RenderDownloaded(_, _)
\* The start text of document d with the references to the fetched URLs, and
\* only those, as wiki embeds of the file name.
RenderDownloaded(d, segs) ==
    IF segs = <<>> THEN <<>>
    ELSE (IF DlFetched(d, segs[1].w) THEN Wiki(fileNameFromUrl(<<segs[1].w>>)[1])
          ELSE Form(segs[1].form, segs[1].w))
           \o <<segs[1].sep>> \o RenderDownloaded(d, Tail(segs))

\* C19: after a download run every reference to a fetched URL, whatever its
\* form was, is the wiki embed of the file name alone, and every other
\* reference, that to a URL outside the origin among them, stands as before.
C19_FetchedBecomeEmbeds ==
    (kind \in {"dlCurrent", "dlAll"} /\ rpc = "done") =>
        \A d \in DlTargets : docs[d] = RenderDownloaded(d, shape[d])

\* ------------------------------------------------------------ extraction and rewrite
\* The two extractions and the two rewrites as functions of a text: a text is
\* drawn, one side (the upload's or the download's) extracts its references,
\* one of them is rewritten as a run rewrites it, and the rewrite and the
\* extraction are applied again to the result.  content holds the text, refs
\* the extraction, idx the reference chosen, updated the text after the first
\* rewrite, docs[1] the text after the second and urls the extraction of updated.

\* The extraction of the side.
Extract(side, text) ==
    IF side = "local" THEN extractLocalImagePaths(text) ELSE extractRemoteImageUrls(text)

\* The rewrite of reference p as a run of the side does it: to the URL the
\* server returned, or to the file name of the URL.
RewriteOf(side, text, p) ==
    IF side = "local" THEN replaceImageLink(text, p, <<NewUrls[1]>>)
    ELSE replaceUrlWithRelative(text, p, fileNameFromUrl(p))

TxExtract(side) ==
    /\ rpc = "idle" /\ kind = "none"
    /\ kind' = "text"
    /\ entry' = side
    /\ rpc' = "tx_refs"
    /\ content' = docs[1]
    /\ refs' = Extract(side, docs[1])
    /\ UNCHANGED <<clientVars, settingsToken, serverUrl, vaultVars, inventory, cleanVars>>
    /\ UNCHANGED <<cur, updated, idx, outcomes, urls, log, report>>

TxRewrite(n) ==
    /\ rpc = "tx_refs"
    /\ n \in 1..Len(refs)
    /\ idx' = n
    /\ updated' = RewriteOf(entry, content, refs[n])
    /\ rpc' = "tx_once"
    /\ UNCHANGED <<clientVars, settingsToken, serverUrl, kind, entry, vaultVars, inventory, cleanVars>>
    /\ UNCHANGED <<cur, content, refs, outcomes, urls, log, report>>

TxAgain ==
    /\ rpc = "tx_once"
    /\ docs' = <<RewriteOf(entry, updated, refs[idx])>>
    /\ urls' = Extract(entry, updated)
    /\ rpc' = "tx_twice"
    /\ UNCHANGED <<clientVars, settingsToken, serverUrl, kind, entry, inventory, cleanVars>>
    /\ UNCHANGED <<shape, vaultFiles, files>>
    /\ UNCHANGED <<cur, content, updated, refs, idx, outcomes, log, report>>

\* The references of the texts: the three forms and the padded markdown form,
\* to local paths, to URLs under the origin and to a URL elsewhere.
TextRefs ==
    {<<"md", "a.png">>, <<"md", "b.png">>, <<"html", "a.png">>, <<"wiki", "b.png">>,
     <<"pad", "a.png">>,
     <<"md", "https://h/x.png">>, <<"md", "https://h/d/x.png">>, <<"html", "https://h/x.png">>,
     <<"wiki", "https://h/d/x.png">>, <<"pad", "https://h/x.png">>, <<"md", "https://o/w.png">>,
     <<"md", "HTTPS://h/u.png">>, <<"html", "//cdn/v.png">>,
     <<"md", "data:image/png;base64,AA">>, <<"wiki", "DATA:image/png;base64,AA">>}

TextInit ==
    /\ PluginInit(0)
    /\ serverUrl = "https://h/api/v1"
    /\ \E d \in DocsUpTo(TextRefs, {" ", "\n"}, MaxRefs) :
         /\ shape = <<d>>
         /\ docs = <<Render(d)>>
    /\ vaultFiles = {}
    /\ files = {}
    /\ inventory = <<>> /\ inventory0 = <<>>

TextNext ==
    \/ \E side \in {"local", "remote"} : TxExtract(side)
    \/ \E n \in 1..MaxRefs : TxRewrite(n)
    \/ TxAgain

\* Extraction and rewrite applied to the texts of bounded size.
SpecText == TextInit /\ [][TextNext]_vars

\* ------------------------------------------------------------ claim C11
\* The text of one reference after the rewrite of its target by the side.
Rewritten(side, seg) ==
    IF side = "remote" THEN Wiki(fileNameFromUrl(<<seg.w>>)[1])
    ELSE IF seg.form = "html" THEN Html(NewUrls[1])
    ELSE <<"!", "[", "]", "(", NewUrls[1], ")">>

RECURSIVE RenderRewritten(_, _, _)
\* The text of document d with the references to p, and only those, rewritten.
RenderRewritten(side, d, p) ==
    IF d = <<>> THEN <<>>
    ELSE (IF <<d[1].w>> = p /\ d[1].form # "pad" THEN Rewritten(side, d[1])
          ELSE Form(d[1].form, d[1].w))
           \o <<d[1].sep>> \o RenderRewritten(side, Tail(d), p)

\* C11: the rewrite of one reference changes only the occurrences of that
\* reference; every other reference and the text around them stand as before,
\* also when several references stand on one line.
C11_RewriteTouchesOnlyItsReference ==
    (kind = "text" /\ rpc = "tx_once") =>
        updated = RenderRewritten(entry, shape[1], refs[idx])

\* ------------------------------------------------------------ uploadLocalImage: the lookup
\* The lookup of uploadLocalImage as a function of the embedded path and the
\* vault: refs holds the path, vaultFiles the vault; the step probes the
\* candidates and logs every probe, the basename search if it runs, and the
\* entry the lookup ends with.

\* The entry is none, or a folder: uploadLocalImage throws.
Throws(e) == e.kind # "file"

RsResolve ==
    /\ rpc = "idle" /\ kind = "none"
    /\ kind' = "resolve"
    /\ rpc' = "rs_done"
    /\ idx' = 1
    /\ \E e \in Lookups(refs[1]) :
         LET cands == Candidates(refs[1])
             n == FirstExisting(cands)
             probes == [k \in 1..(IF n = 0 THEN Len(cands) ELSE n) |-> <<"probe", cands[k]>>]
         IN  /\ log' = probes
                        \o If(n = 0, <<<<"basename", BaseOf(refs[1])>>>>)
                        \o <<<<"entry", e>>>>
             /\ outcomes' = <<IF Throws(e) THEN "notfound" ELSE "found">>
    /\ UNCHANGED <<clientVars, settingsToken, serverUrl, entry, vaultVars, inventory, cleanVars>>
    /\ UNCHANGED <<cur, content, updated, refs, urls, report>>

\* The paths the references embed.
ImagePaths ==
    {<<"a.png">>, <<".", "a.png">>, <<"", "a.png">>, <<"attachments", "a.png">>,
     <<"sub", "a.png">>, <<"e%41.png">>, <<"e%2541.png">>, <<"f%.png">>}

\* The paths of the vault that hold a file or a folder.
StorePaths ==
    {<<"d", "a.png">>, <<"a.png">>, <<"attachments", "a.png">>, <<"Attachments", "a.png">>,
     <<"d", "Note", "a.png">>, <<"x", "a.png">>, <<"d", "sub", "a.png">>,
     <<"d", "e%41.png">>, <<"d", "eA.png">>, <<"d", "f%.png">>}

\* The vaults of at most n entries.
Vaults(n) ==
    {V \in SUBSET ({FileAt(q) : q \in StorePaths} \cup {FolderAt(q) : q \in StorePaths}) :
        /\ Cardinality(V) <= n
        /\ \A a, b \in V : a.path = b.path => a = b}

ResolveInit ==
    /\ ClientInit
    /\ settingsToken = 0 /\ configToken = 0
    /\ serverUrl = "https://h/api/v1"
    /\ rpc = "idle" /\ kind = "none" /\ entry = "none"
    /\ cur = 0 /\ content = <<>> /\ updated = <<>> /\ idx = 0
    /\ outcomes = <<>> /\ urls = <<>> /\ log = <<>> /\ report = <<>>
    /\ page = 0 /\ last = 0 /\ all = <<>> /\ used = <<>> /\ toDelete = <<>>
    /\ confirmed = "none" /\ success = <<>> /\ failed = <<>>
    /\ shape = <<>> /\ docs = <<>>
    /\ \E q \in ImagePaths : refs = <<q>>
    /\ vaultFiles \in Vaults(MaxEntries)
    /\ files = {}
    /\ inventory = <<>> /\ inventory0 = <<>>

ResolveNext == RsResolve

\* The lookup of uploadLocalImage on the paths and vaults of bounded size.
SpecResolve == ResolveInit /\ [][ResolveNext]_vars

\* ------------------------------------------------------------ claims C13, C14
\* The entry the lookup ended with.
RsEntry == log[Len(log)][2]
\* The paths probed, in order.
RsProbes == [k \in 1..Cardinality({m \in DOMAIN log : log[m][1] = "probe"}) |-> log[k][2]]
\* The basename search ran.
RsBasename == \E m \in DOMAIN log : log[m][1] = "basename"

\* C13: uploadLocalImage throws NotFound only if neither the resolved path,
\* nor an alternative path, nor the basename search names a stored file; a
\* candidate that exists but is not a file does not keep a later candidate or
\* the basename search from succeeding.
C13_NotFoundOnlyIfAllFail ==
    (kind = "resolve" /\ rpc = "rs_done" /\ outcomes = <<"notfound">>) =>
        /\ \A n \in 1..Len(Candidates(refs[1])) :
             getAbstractFileByPath(Candidates(refs[1])[n]).kind # "file"
        /\ BasenameMatches(BaseOf(refs[1])) = {}

\* The candidates of the variant v in the stated order: (1) the primary
\* resolution, (2) without the attachments/ prefix, (3) as it is, (4) with the
\* attachments/ prefix, (5) from the folder of the document, (6) with the
\* Attachments/ prefix, (7) in the folder named as the document.
StatedOf(v) ==
    <<resolveImagePath(v, NoteDir)>>
    \o If(Len(v) >= 2 /\ v[1] = "attachments", <<Tail(v)>>)
    \o <<v>>
    \o If(~(Len(v) >= 2 /\ v[1] = "attachments"), <<<<"attachments">> \o v>>)
    \o <<NoteDir \o v>>
    \o <<<<"Attachments">> \o v>>
    \o <<NoteDir \o <<NoteBase, v[Len(v)]>>>>

\* The stated order for the embedded path p: the primary resolution of the
\* normalised path, then the candidates of the raw variant, then those of the
\* percent-decoded variant.
StatedOrder(p) ==
    Distinct(<<resolveImagePath(DecodedOr(p), NoteDir)>>
             \o StatedOf(CleanPath(p))
             \o If(Decodes(p), StatedOf(decodeURIComponent(CleanPath(p)))))

\* C14: the lookup probes the candidates in the stated order, for the raw and
\* the percent-decoded variant; the entry it takes from them is the first one
\* in that order that exists, and the basename search runs only when none exists.
C14_CandidatesInStatedOrder ==
    (kind = "resolve" /\ rpc = "rs_done") =>
        LET stated == StatedOrder(refs[1])
            first == FirstExisting(stated)
            probed == Distinct(RsProbes)
        IN  /\ Len(probed) <= Len(stated)
            /\ \A k \in 1..Len(probed) : probed[k] = stated[k]
            /\ ~RsBasename => first # 0 /\ RsEntry.path = stated[first]
            /\ RsBasename => first = 0

\* ------------------------------------------------------------ claims C12, C20
\* C12: the rewrite applied a second time with the same arguments leaves the
\* text of the first application as it is, and the extraction of the rewritten
\* text, with the same filter, does not return the reference that was rewritten.
C12_RewriteIdempotent ==
    (kind = "text" /\ rpc = "tx_twice") =>
        /\ docs[1] = updated
        /\ refs[idx] \notin Range(urls)

\* The side's filter selects the reference: a local path, or a URL under the origin.
Selected(side, seg) ==
    IF side = "local" THEN isLocalPath(<<seg.w>>) ELSE StartsWithOrigin(<<seg.w>>)

\* The references of document d that the side's filter selects.
SelectedRefs(side, d) == {k \in 1..Len(d) : Selected(side, d[k])}

\* C20: from a text of well-formed references the extraction returns one entry
\* for each reference its filter selects, as many entries as such references,
\* and each entry is the path or URL the reference embeds.
C20_OneEntryPerReference ==
    (kind = "text" /\ rpc = "tx_refs") =>
        /\ Len(refs) = Cardinality(SelectedRefs(entry, shape[1]))
        /\ \A k \in SelectedRefs(entry, shape[1]) : <<shape[1][k].w>> \in Range(refs)

\* ------------------------------------------------------------ claim C21
\* The reference is to an http(s) URL, a protocol-relative URL or a data: URI;
\* the scheme of a URI is the same in whatever letter case.
NotLocal(w) ==
    \/ IsHttpAnyCase(w)
    \/ IsProtocolRelative(w)
    \/ w \in {"data:image/png;base64,AA", "DATA:image/png;base64,AA"}

\* C21: isLocalPath holds of the path of a reference exactly when it is not an
\* http(s) URL, not protocol-relative and not a data: URI, and the local
\* extraction returns only paths of that kind.
C21_OnlyLocalPathsExtracted ==
    (kind = "text" /\ entry = "local" /\ rpc = "tx_refs") =>
        /\ \A k \in DOMAIN shape[1] :
             isLocalPath(<<shape[1][k].w>>) <=> ~NotLocal(shape[1][k].w)
        /\ \A n \in DOMAIN refs : ~NotLocal(refs[n][1])

\* ------------------------------------------------------------ claim C22
\* C22: a getToken caller that finds an acquisition in flight polls a bounded
\* number of times and then stops waiting: the timer firings of one wait that
\* find the flag set stay below the number up to which they are told apart.
C22_PollsBounded == \A c \in Callers : polls[c] < MaxPolls

\* ------------------------------------------------------------ cleanup while the vault is edited
\* The run of cleanupUnusedImages and the user, who edits a document while
\* the run awaits: the text of the document gets one more line, a reference
\* to an image of the inventory.  An edit before the scan has read the
\* document is a document of another initial state; the edits here come when
\* every document has been read.

\* The scan of the documents has ended and the run has not.
ScanOver ==
    /\ kind = "cleanup"
    /\ cur \notin DOMAIN docs
    /\ rpc \in {"cl_list", "cl_list_json", "cl_list_timer", "cl_listed",
                "cl_confirm", "cl_delete", "cl_pause"}

\* The user adds a reference to the image img at the end of document d.
Edit(d, img) ==
    /\ ScanOver
    /\ docs = StartDocs
    /\ d \in DOMAIN docs
    /\ docs' = [docs EXCEPT ![d] = @ \o Md(img.url[1]) \o <<"\n">>]
    /\ UNCHANGED <<clientVars, runVars, shape, vaultFiles, files, localVars, inventory, cleanVars>>

CleanupEditNext ==
    \/ CleanupNext
    \/ \E d \in 1..NumDocs, n \in 1..MaxItems : n <= Len(inventory0) /\ Edit(d, inventory0[n])

SpecCleanupEdit == CleanupInit /\ [][CleanupEditNext]_vars

\* ------------------------------------------------------------ claim C23
\* A document references the URL: the URL stands in its text.
Referenced(url) == \E d \in DOMAIN docs : Occurs(url, docs[d])

\* The step issues the delete request of an orphan.
IssuesDelete == rpc' = "cl_delete" /\ rpc # "cl_delete"

\* C23: at the moment a delete request is issued no document references the
\* URL of the image it names, also when a reference to the image was added
\* after the scan, while the confirmation or an earlier delete was pending.
C23_DeletedImageUnreferenced ==
    [][IssuesDelete => ~Referenced(toDelete[idx'].url)]_vars

\* ------------------------------------------------------------ claim C24
\* C24: at the end of a download run the file that the rewritten reference of
\* each fetched URL names holds the bytes fetched from that URL: no other URL
\* of the document has been written over it.
C24_FileHoldsFetchedBytes ==
    (kind \in {"dlCurrent", "dlAll"} /\ rpc = "done") =>
        \A d \in DlTargets : \A m \in RefEvents(d) :
            log[m][4] = "ok" =>
                <<d, fileNameFromUrl(Extracted(d)[log[m][3]]), Extracted(d)[log[m][3]]>> \in files

\* ------------------------------------------------------------ claim C25
\* The request of a page has failed: a status that is not ok (a second 401
\* among them), a rejected fetch, or a token refresh that threw.
ListFailed == \E m \in ListedEvents : log[m][4] # "ok"

\* C25: when listAllImages fails on a page, the run asks for no confirmation,
\* issues no delete request and computes no orphan set from the pages it got.
C25_FailedListingEndsRun ==
    (kind = "cleanup" /\ ListFailed) =>
        /\ rpc = "failed"
        /\ confirmed = "none"
        /\ toDelete = <<>>
        /\ DeleteEvents = {}
        /\ op[RunCaller] = "none"
        /\ inventory = inventory0

\* Page 1 arrived, page 2 got 401 again after the refresh: the run has ended
\* with the items of page 1 in hand.
C25_Witness ==
    /\ kind = "cleanup" /\ rpc = "failed"
    /\ \E m \in ListedEvents : log[m] = <<"listed", 2, 2, "HTTP 401">>
    /\ all # <<>>

\* ------------------------------------------------------------ claim C26
\* C26: the busy flag of the client is set exactly when one POST /tokens of
\* the client is in flight; an acquisition that fails clears it.
C26_FlagIffRequestInFlight == isFetchingToken <=> netTokens = 1

\* An acquisition has failed, and a caller that waited for it has got a token
\* by a request of its own since.
C26_Witness ==
    /\ ~isFetchingToken /\ netTokens = 0
    /\ \E c, d \in Callers :
         /\ op[c] = "getToken" /\ pc[c] = "done" /\ result[c] = "error" /\ ~waited[c]
         /\ op[d] = "getToken" /\ pc[d] = "done" /\ result[d] = "token" /\ waited[d]

\* ------------------------------------------------------------ the operations that need the origin
\* The three operations that start with getServerOrigin, run from the vaults
\* and inventories of the cleanup runs.
OriginNext == CleanupNext \/ DownloadNext

SpecOrigin == CleanupInit /\ [][OriginNext]_vars

\* ------------------------------------------------------------ claim C27
\* The server URL of the settings does not parse into an origin.
WithoutOrigin == getServerOrigin(serverUrl) = <<>>

\* C27: the step that cleanupUnusedImages and the two download operations
\* take when they are called with a server URL that has no origin reports the
\* error and returns: it sends no request, reads and writes no document,
\* writes no file, creates no folder and deletes nothing.
C27_NoOriginNoEffect ==
    [][(rpc = "begin" /\ kind \in {"cleanup", "dlCurrent", "dlAll"} /\ WithoutOrigin) =>
          /\ rpc' = "done"
          /\ log' = Append(log, <<"notice", "invalid", 0>>)
          /\ UNCHANGED <<clientVars, vaultVars, inventory, cleanVars>>
          /\ UNCHANGED <<cur, content, updated, refs, idx, outcomes, urls, report>>]_vars

\* A download of all notes has returned so from a vault with references.
C27_Witness ==
    /\ WithoutOrigin /\ kind = "dlAll" /\ rpc = "done"
    /\ log = <<<<"notice", "invalid", 0>>>>
    /\ docs = StartDocs
    /\ \E d \in DOMAIN docs : DlRefs(d) # <<>>

====
